---- MODULE Spec2Model ----
(***************************************************************************)
(* Pipe930/Memory-Allocator: malloc / free / realloc / calloc over one     *)
(* sbrk-grown arena (src/src/memoryBlock.h, utils.cpp, malloc.cpp).        *)
(*                                                                         *)
(* The heap is modelled as the program sees it: a word-addressed memory in *)
(* which the MemoryBlock headers themselves live (size, isFree, next at    *)
(* byte offsets 0, 8, 16 of a block), the program break, and heap_start.   *)
(* Every function of the source is an operator over a heap record          *)
(*   h = [mem, brk, hs, st, ub, ret, sb]                                   *)
(* where hs is heap_start, ret the function's return value (0 = nullptr),  *)
(* st = "ok" | "fault" | "hang" and ub records that the call touched       *)
(* memory outside [HeapBase, brk), whose outcome the build does not fix;   *)
(* sb counts the call's requests to the OS to move the break.              *)
(* last records the client's most recent call, prev the one before it (in  *)
(* the deep exploration Frag only).                                        *)
(* The layout is the x86-64 one of the source's comments (8-byte word,     *)
(* 24-byte header); only the width of size_t is scaled down to SizeBits.   *)
(***************************************************************************)
EXTENDS Integers, Sequences, FiniteSets, TLC

\* ---- bounds of the model ------------------------------------------------
\* width of size_t / intptr_t in bits (64 in the build)
SizeBits == 10
\* RLIMIT on the break, in words above HeapBase: sbrk fails beyond it
ArenaWords == 20
\* words mapped above the break limit (rest of the last page)
SlackWords == 4

\* ---- constants of the program -------------------------------------------
\* sizeof(word_t)
WORD == 8
\* sizeof(MemoryBlock): size_t + bool (padded) + pointer
HDR == 24
\* sizeof(block), a MemoryBlock* (malloc.cpp:39)
PTR == 8
\* sizeof(std::declval<MemoryBlock>().size) (memoryBlock.h:89)
SZ == 8

\* initial program break sbrk(0): word-aligned, and above every size the
\* client asks for, as heap addresses are in the build
HeapBase == WORD * 64

Word == 2 ^ SizeBits
BrkMax == HeapBase + WORD * ArenaWords
Addrs == {HeapBase + WORD * i : i \in 0 .. (ArenaWords + SlackWords - 1)}
Fuel == ArenaWords + SlackWords + 1

VARIABLES mem, brk, heap_start, live, last, prev, status, calls

vars == <<mem, brk, heap_start, live, last, prev, status, calls>>

\* ---- byte-level helpers (little-endian words) ---------------------------
\* the low k bytes of v
LowBytes(v, k) == IF k >= 3 THEN v ELSE v % (256 ^ k)
\* old with its low k bytes replaced by those of new
Splice(old, new, k) == (old - LowBytes(old, k)) + LowBytes(new, k)

\* ---- MemoryBlock field access -------------------------------------------
HdrOK(b) == b \in Addrs /\ (b + HDR - WORD) \in Addrs

Fault(h) == [h EXCEPT !.st = "fault", !.ret = 0]

\* dereference of the header at b
Touch(h, b) ==
    IF h.st # "ok" THEN h
    ELSE IF ~HdrOK(b) THEN Fault(h)
    ELSE [h EXCEPT !.ub = @ \/ (b + HDR > h.brk)]

bsize(h, b) == h.mem[b]
bfree(h, b) == (h.mem[b + 8] % 256) # 0
bnext(h, b) == h.mem[b + 16]
setSize(h, b, v) == [h EXCEPT !.mem[b] = v]
setFree(h, b, f) == [h EXCEPT !.mem[b + 8] = Splice(@, IF f THEN 1 ELSE 0, 1)]
setNext(h, b, n) == [h EXCEPT !.mem[b + 16] = n]

\* ---- memoryBlock.h ------------------------------------------------------
\* (n + sizeof(word_t) - 1) & ~(sizeof(word_t) - 1) on size_t
align(n) ==
    LET x == (n + WORD - 1) % Word
    IN x - (x % WORD)

allocSize(size) == (size + HDR - SZ) % Word

\* ---- sbrk ---------------------------------------------------------------
\* the increment is an intptr_t: the upper half of the range is negative
Signed(x) == IF x >= Word \div 2 THEN x - Word ELSE x

\* ---- utils.cpp ----------------------------------------------------------
requestSpace(h, size) ==
    IF h.st # "ok" THEN h
    ELSE
    LET block == h.brk
        nb == h.brk + Signed(allocSize(size))
    IN IF nb > BrkMax \/ nb < HeapBase
       THEN [h EXCEPT !.ret = 0, !.sb = @ + 1]
       ELSE LET h1 == Touch([h EXCEPT !.brk = nb, !.sb = @ + 1,
                                      !.hs = IF h.hs = 0 THEN block ELSE h.hs],
                            block)
            IN IF h1.st # "ok" THEN h1
               ELSE [setNext(setFree(setSize(h1, block, size), block, FALSE),
                             block, 0)
                     EXCEPT !.ret = block]

RECURSIVE findFrom(_, _, _, _)
findFrom(h, current, size, fuel) ==
    IF h.st # "ok" THEN h
    ELSE IF current = 0 THEN [h EXCEPT !.ret = 0]
    ELSE IF fuel = 0 THEN [h EXCEPT !.st = "hang", !.ret = 0]
    ELSE LET h1 == Touch(h, current)
         IN IF h1.st # "ok" THEN h1
            ELSE IF bfree(h1, current) /\ bsize(h1, current) >= size
                 THEN [h1 EXCEPT !.ret = current]
                 ELSE findFrom(h1, bnext(h1, current), size, fuel - 1)

\* a first-fit that wants strictly more than size (">" for ">=")
findFreeBlockStrict(h, size) == findFrom(h, h.hs, size + 1, Fuel)

findFreeBlock(h, size) == findFrom(h, h.hs, size, Fuel)

\* a split whose remainder keeps the bytes of its own header as capacity
splitBlockNoHeader(h, block, size) ==
    LET h0 == Touch(h, block)
    IN IF h0.st # "ok" THEN h0
       ELSE IF bsize(h0, block) <= (size + HDR) % Word THEN h0
       ELSE LET newBlock == block + HDR + size
                h1 == Touch(h0, newBlock)
            IN IF h1.st # "ok" THEN h1
               ELSE LET h2 == setSize(h1, newBlock,
                                      (bsize(h1, block) - size) % Word)
                        h3 == setFree(h2, newBlock, TRUE)
                        h4 == setNext(h3, newBlock, bnext(h3, block))
                        h5 == setSize(h4, block, size)
                    IN setNext(h5, block, newBlock)

splitBlock(h, block, size) ==
    LET h0 == Touch(h, block)
    IN IF h0.st # "ok" THEN h0
       ELSE IF bsize(h0, block) <= (size + HDR) % Word THEN h0
       ELSE LET newBlock == block + HDR + size
                h1 == Touch(h0, newBlock)
            IN IF h1.st # "ok" THEN h1
               ELSE LET h2 == setSize(h1, newBlock,
                                      (bsize(h1, block) - size - HDR) % Word)
                        h3 == setFree(h2, newBlock, TRUE)
                        h4 == setNext(h3, newBlock, bnext(h3, block))
                        h5 == setSize(h4, block, size)
                    IN setNext(h5, block, newBlock)

\* one pass of "block absorbs block->next"
absorbNext(h, block) ==
    LET n == bnext(h, block)
        h1 == setSize(h, block, (bsize(h, block) + HDR + bsize(h, n)) % Word)
    IN setNext(h1, block, bnext(h1, n))

RECURSIVE mergeLoop(_, _, _)
mergeLoop(h, block, fuel) ==
    IF h.st # "ok" THEN h
    ELSE IF bnext(h, block) = 0 THEN h
    ELSE LET h1 == Touch(h, bnext(h, block))
         IN IF h1.st # "ok" THEN h1
            ELSE IF ~bfree(h1, bnext(h1, block)) THEN h1
            ELSE IF fuel = 0 THEN [h1 EXCEPT !.st = "hang"]
            ELSE mergeLoop(absorbNext(h1, block), block, fuel - 1)

mergeBlocks(h, block) ==
    IF h.st # "ok" \/ block = 0 THEN h
    ELSE LET h1 == Touch(h, block)
         IN IF h1.st # "ok" THEN h1
            ELSE IF ~bfree(h1, block) THEN h1
            ELSE mergeLoop(h1, block, Fuel)

RECURSIVE mergePrev(_, _, _, _)
mergePrev(h, current, block, fuel) ==
    IF h.st # "ok" \/ current = 0 THEN h
    ELSE IF fuel = 0 THEN [h EXCEPT !.st = "hang"]
    ELSE LET h1 == Touch(h, current)
         IN IF h1.st # "ok" THEN h1
            ELSE IF bnext(h1, current) = block /\ bfree(h1, current)
                 THEN LET h2 == setSize(h1, current,
                                   (bsize(h1, current) + HDR + bsize(h1, block)) % Word)
                      IN setNext(h2, current, bnext(h2, block))
                 ELSE mergePrev(h1, bnext(h1, current), block, fuel - 1)

mergeFreeBlocks(h, block) ==
    LET h0 == Touch(h, block)
    IN IF h0.st # "ok" THEN h0
       ELSE LET n == bnext(h0, block)
                h1 == IF n = 0 THEN h0
                      ELSE LET t == Touch(h0, n)
                           IN IF t.st # "ok" THEN t
                              ELSE IF bfree(t, n) THEN absorbNext(t, block)
                              ELSE t
            IN mergePrev(h1, h1.hs, block, Fuel)

\* ---- libc: memset(p, 0, n), memcpy(dst, src, n) -------------------------
RECURSIVE memsetZero(_, _, _)
memsetZero(h, p, n) ==
    IF h.st # "ok" \/ n = 0 THEN h
    ELSE IF p \notin Addrs THEN Fault(h)
    ELSE LET k == IF n >= WORD THEN WORD ELSE n
         IN memsetZero([h EXCEPT !.mem[p] = Splice(@, 0, k),
                                 !.ub = @ \/ (p >= h.brk)],
                       p + WORD, n - k)

RECURSIVE copyWords(_, _, _, _)
copyWords(h, dst, src, n) ==
    IF h.st # "ok" \/ n = 0 THEN h
    ELSE IF dst \notin Addrs \/ src \notin Addrs THEN Fault(h)
    ELSE LET k == IF n >= WORD THEN WORD ELSE n
         IN copyWords([h EXCEPT !.mem[dst] = Splice(@, h.mem[src], k),
                                !.ub = @ \/ (dst >= h.brk) \/ (src >= h.brk)],
                      dst + WORD, src + WORD, n - k)

\* overlapping source and destination are undefined for memcpy
memcpy(h, dst, src, n) ==
    copyWords([h EXCEPT !.ub = @ \/ (n > 0 /\ dst < src + n /\ src < dst + n)],
              dst, src, n)

\* ---- malloc.cpp ---------------------------------------------------------
RECURSIVE linkTail(_, _, _, _)
\* current = heap_start; while (current->next) current = current->next;
\* current->next = block
linkTail(h, current, block, fuel) ==
    LET h1 == Touch(h, current)
    IN IF h1.st # "ok" THEN h1
       ELSE IF bnext(h1, current) = 0 THEN setNext(h1, current, block)
       ELSE IF fuel = 0 THEN [h1 EXCEPT !.st = "hang"]
       ELSE linkTail(h1, bnext(h1, current), block, fuel - 1)

\* the branch taken when heap_start is null
mallocFirst(h, size) ==
    LET h1 == requestSpace(h, size)
    IN IF h1.st # "ok" \/ h1.ret = 0 THEN h1
       ELSE [h1 EXCEPT !.hs = h1.ret, !.ret = h1.ret + HDR]

\* the branch taken when the heap is initialized
mallocNext(h, size) ==
    LET f == findFreeBlock(h, size)
    IN IF f.st # "ok" THEN f
       ELSE IF f.ret = 0
       THEN LET h2 == requestSpace(f, size)
            IN IF h2.st # "ok" \/ h2.ret = 0 THEN h2
               ELSE LET h3 == linkTail(h2, h2.hs, h2.ret, Fuel)
                    IN IF h3.st # "ok" THEN h3
                       ELSE [h3 EXCEPT !.ret = h2.ret + HDR]
       ELSE LET block == f.ret
                h2 == splitBlock(setFree(f, block, FALSE), block, size)
            IN IF h2.st # "ok" THEN h2
               ELSE [h2 EXCEPT !.ret = block + HDR]

\* "size < 0" for "size <= 0": never true of an unsigned size
sizeRejectedNegativeOnly(size) == size < 0

\* if (size <= 0) return nullptr, on an unsigned size
sizeRejected(size) == size = 0

malloc(h, size0) ==
    IF h.st # "ok" THEN h
    ELSE IF sizeRejected(size0) THEN [h EXCEPT !.ret = 0]
    ELSE LET size == align((PTR + size0) % Word)
         IN IF h.hs = 0 THEN mallocFirst(h, size) ELSE mallocNext(h, size)

\* a free without the null check: the header "before" null is dereferenced
freeUnchecked(h, ptr) ==
    IF h.st # "ok" THEN h
    ELSE mergeBlocks(mergeFreeBlocks(setFree(Touch(h, ptr - HDR), ptr - HDR,
                                             TRUE),
                                     ptr - HDR),
                     ptr - HDR)

free(h, ptr) ==
    IF h.st # "ok" THEN h
    ELSE IF ptr = 0 THEN h
    ELSE LET block == ptr - HDR
             h0 == Touch(h, block)
         IN IF h0.st # "ok" THEN h0
            ELSE mergeBlocks(mergeFreeBlocks(setFree(h0, block, TRUE), block),
                             block)

\* memcpy(newPtr, ptr, block->size); free(ptr); return newPtr
\* m is the heap malloc(size) left, m.ret the new pointer
reallocMove(m, ptr) ==
    IF m.st # "ok" \/ m.ret = 0 THEN m
    ELSE [free(memcpy(m, m.ret, ptr, bsize(m, ptr - HDR)), ptr)
          EXCEPT !.ret = m.ret]

\* a realloc that releases the old block before it allocates the new one
reallocBlockFreeFirst(h, ptr, size) ==
    IF h.st # "ok" THEN h
    ELSE IF bsize(h, ptr - HDR) >= size THEN [h EXCEPT !.ret = ptr]
    ELSE reallocMove(malloc(free(h, ptr), size), ptr)

\* a realloc that splits the tail off a block it shrinks
reallocBlockShrink(h, ptr, size) ==
    IF h.st # "ok" THEN h
    ELSE IF bsize(h, ptr - HDR) >= size
         THEN [splitBlock(h, ptr - HDR, size) EXCEPT !.ret = ptr]
    ELSE reallocMove(malloc(h, size), ptr)

\* the part of realloc that reads the header of ptr (h has dereferenced it)
reallocBlock(h, ptr, size) ==
    IF h.st # "ok" THEN h
    ELSE IF bsize(h, ptr - HDR) >= size THEN [h EXCEPT !.ret = ptr]
    ELSE reallocMove(malloc(h, size), ptr)

\* a realloc that returns null for size 0 without releasing ptr
reallocKeepOnZero(h, ptr, size) ==
    IF h.st # "ok" THEN h
    ELSE IF ptr = 0 THEN malloc(h, size)
    ELSE IF size = 0 THEN [h EXCEPT !.ret = 0]
    ELSE reallocBlock(Touch(h, ptr - HDR), ptr, size)

realloc(h, ptr, size) ==
    IF h.st # "ok" THEN h
    ELSE IF ptr = 0 THEN malloc(h, size)
    ELSE IF size = 0 THEN [free(h, ptr) EXCEPT !.ret = 0]
    ELSE reallocBlock(Touch(h, ptr - HDR), ptr, size)

\* a guard that compares the wrapped product with one factor only
overflowGuardLoose(num, size) ==
    LET total_size == (num * size) % Word
    IN num # 0 /\ total_size < size

\* num != 0 && total_size / num != size
overflowGuard(num, size) ==
    LET total_size == (num * size) % Word
    IN num # 0 /\ total_size \div num # size

\* a calloc that returns the block as malloc left it (no memset)
callocNoZero(m, total_size) == m

\* if (ptr) memset(ptr, 0, total_size); return ptr
\* m is the heap malloc(total_size) left
callocZero(m, total_size) ==
    IF m.st # "ok" \/ m.ret = 0 THEN m
    ELSE [memsetZero(m, m.ret, total_size) EXCEPT !.ret = m.ret]

calloc(h, num, size) ==
    IF h.st # "ok" THEN h
    ELSE IF overflowGuard(num, size) THEN [h EXCEPT !.ret = 0]
    ELSE callocZero(malloc(h, (num * size) % Word), (num * size) % Word)

\* ---- the client program -------------------------------------------------
\* number of client steps explored by Spec and by the deep malloc/free Frag
MaxCalls == 5
DeepCalls == 14

\* sizes the client asks malloc / realloc for
MallocSizes == {0, 4, 8, 48}
\* sizes of the deep malloc/free exploration
FragSizes == {8, 96}
\* (count, size) pairs the client asks calloc for
CallocArgs == {<<0, 8>>, <<1, 8>>, <<2, 4>>, <<6, 8>>, <<3, 0>>,
               <<Word \div 2, 2>>, <<Word - 1, Word - 1>>, <<Word \div 4, 5>>,
               <<Word \div 8 + 1, 8>>}
\* negative sizes, as the unsigned size parameter holds them
NegSizes == {Word - 1, Word - 8, Word - 16, Word - 40}
\* the values the client stores in its payload words
UserVals == {1}

NullPtr == 0

\* the heap the next call starts from
Cur == [mem |-> mem, brk |-> brk, hs |-> heap_start,
        st |-> "ok", ub |-> FALSE, ret |-> 0, sb |-> 0]

Call(op, a1, a2, ret) == [op |-> op, a1 |-> a1, a2 |-> a2, ret |-> ret]

\* A call returns with heap h, or ends in a fault / never returns.  A call that
\* touched memory outside the arena may do either.
Outcome(h, lv, lst) ==
    /\ last' = lst
    /\ calls' = calls + 1
    /\ \/ /\ h.st = "ok"
          /\ status' = "ok"
          /\ mem' = h.mem
          /\ brk' = h.brk
          /\ heap_start' = h.hs
          /\ live' = lv
       \/ /\ h.st # "ok" \/ h.ub
          /\ status' = IF h.st = "ok" THEN "fault" ELSE h.st
          /\ UNCHANGED <<mem, brk, heap_start, live>>

Ready(n) == status = "ok" /\ calls < n

\* the deep exploration also remembers the call before the last one
Shallow == Ready(MaxCalls) /\ UNCHANGED prev
Deep == Ready(DeepCalls) /\ prev' = last

Given(ptr, size) == [ptr |-> ptr, size |-> size]

\* a call that hands out h.ret (if not null) for size bytes
Hands(h, size, lst) ==
    Outcome(h, IF h.ret # 0 THEN live \cup {Given(h.ret, size)} ELSE live,
            [lst EXCEPT !.ret = h.ret])

\* realloc of a live allocation: a null return with a size leaves it live
Moves(h, a, size) ==
    Outcome(h,
            IF size = 0 THEN live \ {a}
            ELSE IF h.ret = 0 THEN live
            ELSE (live \ {a}) \cup {Given(h.ret, size)},
            Call("realloc", a.ptr, size, h.ret))

\* the client's store of v in the low k bytes of the word at p
StoreAt(p, v, k) ==
    Outcome(IF p \notin Addrs THEN Fault(Cur)
            ELSE [Cur EXCEPT !.mem[p] = Splice(@, v, k), !.ub = p >= brk],
            live, Call("store", p, v, 0))

MallocCall(size) ==
    Hands(malloc(Cur, size), size, Call("malloc", size, 0, 0))

FreeCall(a) ==
    Outcome(free(Cur, a.ptr), live \ {a}, Call("free", a.ptr, 0, 0))

Malloc ==
    /\ Shallow
    /\ \E size \in MallocSizes : MallocCall(size)

Free ==
    /\ Shallow
    /\ \E a \in live : FreeCall(a)

FreeNull ==
    /\ Shallow
    /\ Outcome(free(Cur, NullPtr), live, Call("free", NullPtr, 0, 0))

Realloc ==
    /\ Shallow
    /\ \E a \in live, size \in MallocSizes :
          Moves(realloc(Cur, a.ptr, size), a, size)

ReallocNull ==
    /\ Shallow
    /\ \E size \in MallocSizes :
          Hands(realloc(Cur, NullPtr, size), size,
                Call("realloc", NullPtr, size, 0))

Calloc ==
    /\ Shallow
    /\ \E c \in CallocArgs :
          Hands(calloc(Cur, c[1], c[2]), (c[1] * c[2]) % Word,
                Call("calloc", c[1], c[2], 0))

\* the client writes one of its payload words (the bytes of it that it asked for)
Store ==
    /\ Shallow
    /\ \E a \in live, v \in UserVals :
       \E off \in {o \in 0 .. (a.size - 1) : o % WORD = 0} :
          StoreAt(a.ptr + off, v,
                  IF a.size - off >= WORD THEN WORD ELSE a.size - off)

Init ==
    /\ mem = [a \in Addrs |-> 0]
    /\ brk = HeapBase
    /\ heap_start = 0
    /\ live = {}
    /\ last = Call("none", 0, 0, 0)
    /\ prev = Call("none", 0, 0, 0)
    /\ status = "ok"
    /\ calls = 0

Next == Malloc \/ Free \/ FreeNull \/ Realloc \/ ReallocNull \/ Calloc \/ Store

Spec == Init /\ [][Next]_vars

\* ---- a client that only allocates and releases, explored deeper ----------
FragMalloc ==
    /\ Deep
    /\ \E size \in FragSizes : MallocCall(size)

FragFree ==
    /\ Deep
    /\ \E a \in live : FreeCall(a)

FragNext == FragMalloc \/ FragFree

Frag == Init /\ [][FragNext]_vars

\* ---- a client that also passes negative sizes to malloc ------------------
NegMalloc ==
    /\ Shallow
    /\ \E size \in NegSizes : MallocCall(size)

NegNext == NegMalloc \/ Malloc \/ Free

Neg == Init /\ [][NegNext]_vars

\* ---- observations on a state --------------------------------------------
\* the blocks reached from heap_start along next, in traversal order
RECURSIVE chainFrom(_, _)
chainFrom(b, fuel) ==
    IF b = 0 \/ ~HdrOK(b) \/ fuel = 0 THEN <<>>
    ELSE <<b>> \o chainFrom(mem[b + 16], fuel - 1)

Chain == chainFrom(heap_start, Fuel)

Capacity(b) == mem[b]
IsFree(b) == (mem[b + 8] % 256) # 0
NextOf(b) == mem[b + 16]

\* the byte ranges [a, a + n) and [b, b + m) share a byte
Overlap(a, n, b, m) == n > 0 /\ m > 0 /\ a < b + m /\ b < a + n

\* the last step was a call of op that returned
Returned(op) == status = "ok" /\ last.op = op

\* C1: a successful allocate(size), size > 0, returns a span [p, p + size)
\* inside the arena that shares no byte with a block header of the chain nor
\* with the requested span of another live allocation.
C1_AllocSpanSafe ==
    (Returned("malloc") /\ last.a1 > 0 /\ last.ret # 0) =>
        /\ last.ret >= HeapBase
        /\ last.ret + last.a1 <= brk
        /\ \A i \in 1 .. Len(Chain) : ~Overlap(last.ret, last.a1, Chain[i], HDR)
        /\ \A a \in live \ {Given(last.ret, last.a1)} :
              ~Overlap(last.ret, last.a1, a.ptr, a.size)

\* C2: the blocks of the chain tile the arena: a block's payload ends exactly
\* where its successor's header starts, and the tail's payload ends inside
\* the arena.
C2_BlocksTile ==
    status = "ok" =>
        \A i \in 1 .. Len(Chain) :
            LET b == Chain[i]
            IN IF NextOf(b) # 0
               THEN b + HDR + Capacity(b) = NextOf(b)
               ELSE b + HDR + Capacity(b) <= brk

\* C3: the chain is strictly ordered by ascending address.
C3_AddressOrdered ==
    \A i \in 1 .. Len(Chain) :
        NextOf(Chain[i]) # 0 => Chain[i] < NextOf(Chain[i])

\* C4: once every live allocation has been released the chain is one Free
\* block.
C4_AllReleasedOneBlock ==
    (status = "ok" /\ heap_start # 0 /\ live = {}) =>
        (Len(Chain) = 1 /\ IsFree(Chain[1]))

\* bytes the chain accounts for: every block's header plus its capacity
FootprintOf(m, hs) ==
    LET RECURSIVE walk(_, _)
        walk(b, fuel) ==
            IF b = 0 \/ ~HdrOK(b) \/ fuel = 0 THEN 0
            ELSE HDR + m[b] + walk(m[b + 16], fuel - 1)
    IN walk(hs, Fuel)

Footprint == FootprintOf(mem, heap_start)

\* this step is a call of op that returned
Step(op) == calls' = calls + 1 /\ status' = "ok" /\ last'.op = op

\* C5: release conserves the footprint of the chain (the sum over its blocks
\* of capacity + header size), so a coalesced block holds the capacities of
\* its constituents plus the headers between them.
C5_ReleaseConservesFootprint ==
    [][(Step("free") /\ last'.a1 # NullPtr) => Footprint' = Footprint]_vars

ChainBlocks == {Chain[i] : i \in 1 .. Len(Chain)}

\* the last two calls were p = allocate(s), which succeeded, and release(p);
\* this step is allocate(s) again
ReallocateAfterRelease ==
    /\ prev.op = "malloc" /\ prev.ret # 0
    /\ last.op = "free" /\ last.a1 = prev.ret
    /\ Step("malloc") /\ last'.a1 = prev.a1

\* C6 (as stated): allocate(s) = p, release(p), allocate(s) returns p again.
C6_ReuseSameAddress ==
    [][ReallocateAfterRelease => last'.ret = prev.ret]_vars

\* C6 (amended): ... returns p again, provided release(p) did not coalesce
\* p's block into a Free predecessor: p's block is still a block of the chain.
C6_ReuseUnlessAbsorbed ==
    [][(ReallocateAfterRelease /\ (prev.ret - HDR) \in ChainBlocks)
          => last'.ret = prev.ret]_vars

\* the heap is left exactly as it was
HeapUnchanged == UNCHANGED <<mem, brk, heap_start>>

\* this step is a call of op, whether or not it returned
Called(op) == calls' = calls + 1 /\ last'.op = op

\* low k bytes of the word at a in memory m agree with those at b in n
SameBytes(m, a, n, b, k) ==
    a \in Addrs /\ b \in Addrs /\ LowBytes(m[a], k) = LowBytes(n[b], k)

Min(a, b) == IF a < b THEN a ELSE b

\* allocate(s) = p and release(p) were the last two calls, p's block is still
\* in a chain of several blocks, and allocate(s) now returns p again
C6_Witness ==
    /\ status = "ok"
    /\ prev.op = "malloc" /\ prev.ret # 0
    /\ last.op = "free" /\ last.a1 = prev.ret
    /\ (prev.ret - HDR) \in ChainBlocks
    /\ Len(Chain) >= 3
    /\ calls < DeepCalls
    /\ malloc(Cur, prev.a1).ret = prev.ret

\* C7: a reallocate(p, size) with size above p's capacity that returns q
\* leaves in q the first min(oldCapacity, size) bytes p held before the call.
C7_ReallocPreserves ==
    [][(Step("realloc") /\ last'.a1 # NullPtr /\ last'.ret # 0
          /\ HdrOK(last'.a1 - HDR) /\ last'.a2 > Capacity(last'.a1 - HDR))
        => LET p == last'.a1
               q == last'.ret
               n == Min(Capacity(p - HDR), last'.a2)
           IN \A o \in {x \in 0 .. (n - 1) : x % WORD = 0} :
                 SameBytes(mem', q + o, mem, p + o, Min(WORD, n - o))]_vars

\* C8: allocate with a negative size returns null and changes nothing.
C8_NegativeRejected ==
    [][(Called("malloc") /\ last'.a1 >= Word \div 2)
        => (status' = "ok" /\ last'.ret = 0 /\ HeapUnchanged)]_vars

\* C9: allocate(0) returns null and leaves head, chain, blocks and arena end
\* unchanged.
C9_ZeroRejected ==
    [][(Called("malloc") /\ last'.a1 = 0)
        => (status' = "ok" /\ last'.ret = 0 /\ HeapUnchanged)]_vars

C9_Witness ==
    /\ Returned("malloc") /\ last.a1 = 0 /\ last.ret = 0
    /\ Len(Chain) >= 2 /\ live # {}

\* C10: allocateZeroed(count, size) returns null and changes nothing when
\* count * size does not fit the size type, and the guard rejects no pair
\* whose product fits: such a call returns whatever allocate(count * size)
\* lets it return.
C10_OverflowGuardExact ==
    [][Called("calloc") =>
         LET n == last'.a1
             s == last'.a2
             m == malloc(Cur, n * s)
         IN IF n * s >= Word
            THEN status' = "ok" /\ last'.ret = 0 /\ HeapUnchanged
            ELSE (m.st = "ok" /\ ~m.ub /\ m.ret # 0) => last'.ret = m.ret]_vars

C10_Witness ==
    /\ Returned("calloc") /\ last.a1 * last.a2 >= Word /\ last.ret = 0
    /\ Len(Chain) >= 2 /\ live # {}

C10_WitnessFits ==
    /\ Returned("calloc") /\ last.a1 * last.a2 < Word /\ last.ret # 0
    /\ Len(Chain) >= 2

\* the n bytes from p in memory m are all zero
ZeroBytes(m, p, n) ==
    \A o \in {x \in 0 .. (n - 1) : x % WORD = 0} :
        (p + o) \in Addrs /\ LowBytes(m[p + o], Min(WORD, n - o)) = 0

\* C11: a successful allocateZeroed(count, size) with 0 < count * size, the
\* product not overflowing, returns p with every byte of [p, p + count * size)
\* zero, also when the block is a reused Free block with a written payload.
C11_ZeroFilled ==
    [][(Step("calloc") /\ last'.ret # 0
          /\ last'.a1 * last'.a2 > 0 /\ last'.a1 * last'.a2 < Word)
        => ZeroBytes(mem', last'.ret, last'.a1 * last'.a2)]_vars

\* a Free block whose payload holds a non-zero word is about to be handed
\* out, zeroed, by allocateZeroed(1, 8)
C11_Witness ==
    /\ status = "ok" /\ calls < MaxCalls
    /\ \E b \in ChainBlocks :
          /\ IsFree(b) /\ (b + HDR) \in Addrs /\ mem[b + HDR] # 0
          /\ calloc(Cur, 1, 8).st = "ok" /\ ~calloc(Cur, 1, 8).ub
          /\ calloc(Cur, 1, 8).ret = b + HDR
          /\ calloc(Cur, 1, 8).mem[b + HDR] = 0

\* this step is an allocate(size > 0), or a reallocate(p, size > 0) of a
\* non-null p, that returned null
RefusedGrowth ==
    /\ \/ Step("malloc") /\ last'.a1 # 0
       \/ Step("realloc") /\ last'.a1 # NullPtr /\ last'.a2 # 0
    /\ last'.ret = 0

\* the requests to move the break that the call of this step makes
GrowthAttempts ==
    IF last'.op = "malloc" THEN malloc(Cur, last'.a1).sb
    ELSE realloc(Cur, last'.a1, last'.a2).sb

\* C12: when the OS refuses to extend the arena, allocate and the copying
\* path of reallocate return null with memory (headers and payloads), arena
\* head, arena end and the live allocations as before, after one attempt to
\* grow.
C12_RefusedGrowthNoChange ==
    [][RefusedGrowth =>
         (HeapUnchanged /\ live' = live /\ GrowthAttempts = 1)]_vars

\* reallocate of a live allocation to a size above its capacity returned null
C12_Witness ==
    /\ Returned("realloc") /\ last.a1 # NullPtr /\ last.ret = 0
    /\ HdrOK(last.a1 - HDR) /\ last.a2 > Capacity(last.a1 - HDR)
    /\ \E a \in live : a.ptr = last.a1
    /\ ~IsFree(last.a1 - HDR)

\* this step ends as the call that computed heap h with return value r ends:
\* it returns r with the heap of h, or does not return where h does not
EndsAs(h, r) ==
    /\ last'.ret = r
    /\ IF status' = "ok"
       THEN h.st = "ok" /\ mem' = h.mem /\ brk' = h.brk /\ heap_start' = h.hs
       ELSE (h.st # "ok" \/ h.ub)
            /\ status' = (IF h.st = "ok" THEN "fault" ELSE h.st)
            /\ HeapUnchanged

\* C13: reallocate(null, size) ends as allocate(size) from the same state
\* does, with the same return value and heap; reallocate(p, 0), p non-null,
\* returns null and leaves the heap release(p) leaves.
C13_ReallocDegenerate ==
    [][Called("realloc") =>
         /\ last'.a1 = NullPtr =>
               EndsAs(malloc(Cur, last'.a2), malloc(Cur, last'.a2).ret)
         /\ (last'.a1 # NullPtr /\ last'.a2 = 0) =>
               EndsAs(free(Cur, last'.a1), 0)]_vars

\* reallocate(p, 0) returned and p's block was coalesced away or is Free in
\* a chain that has other blocks
C13_Witness ==
    /\ Returned("realloc") /\ last.a1 # NullPtr /\ last.a2 = 0 /\ last.ret = 0
    /\ live # {}
    /\ (last.a1 - HDR) \in ChainBlocks => IsFree(last.a1 - HDR)

\* C14: a reallocate(p, size) with 0 < size <= capacity of p's block returns
\* p and leaves the heap unchanged: no block is split, freed or added and the
\* arena end does not move.  (That the call returns at all is C17's matter.)
C14_ReallocFitsInPlace ==
    [][(Step("realloc") /\ last'.a1 # NullPtr /\ last'.a2 > 0
          /\ HdrOK(last'.a1 - HDR) /\ last'.a2 <= Capacity(last'.a1 - HDR))
        => (last'.ret = last'.a1 /\ HeapUnchanged)]_vars

\* reallocate(p, size) returned p for a size a split of p's block could
\* have served, in a chain of several blocks
C14_Witness ==
    /\ Returned("realloc") /\ last.a1 # NullPtr /\ last.ret = last.a1
    /\ last.a2 > 0 /\ Capacity(last.a1 - HDR) > last.a2 + HDR
    /\ ~IsFree(last.a1 - HDR)
    /\ Len(Chain) >= 2

\* C15: release(null) returns and changes nothing in any state: arena head,
\* chain links, every block's capacity and state, and the arena end, also
\* before the first allocation.
C15_FreeNullNoOp ==
    [][(Called("free") /\ last'.a1 = NullPtr)
        => (status' = "ok" /\ HeapUnchanged /\ live' = live)]_vars

\* release(null) returned on a chain of several blocks, one of them Free
C15_Witness ==
    /\ Returned("free") /\ last.a1 = NullPtr
    /\ Len(Chain) >= 2 /\ live # {}
    /\ \E b \in ChainBlocks : IsFree(b)

\* release(null) returned before the first allocation
C15_WitnessUninitialized ==
    Returned("free") /\ last.a1 = NullPtr /\ heap_start = 0 /\ brk = HeapBase

\* C16: the arena end never decreases, and release leaves it where it is.
C16_ArenaNeverShrinks ==
    [][brk' >= brk /\ (Step("free") => brk' = brk)]_vars

\* C17: every call of allocate, release, reallocate and allocateZeroed
\* terminates: no chain traversal of a call runs forever round a cycle of
\* next links.
C17_CallsTerminate == status # "hang"

\* C18: through an operation on other pointers, the block backing a live
\* allocation stays in the chain at its address, with its capacity, Used.
C18_LiveBlockStable ==
    [][status' = "ok" =>
         \A a \in live \cap live' :
            ((a.ptr - HDR) \in ChainBlocks /\ ~IsFree(a.ptr - HDR))
            => /\ (a.ptr - HDR) \in ChainBlocks'
               /\ Capacity(a.ptr - HDR)' = Capacity(a.ptr - HDR)
               /\ ~IsFree(a.ptr - HDR)']_vars

\* C19: after every completed operation no two consecutive blocks of the
\* chain are both Free (a block that is its own successor is not counted as
\* two blocks here).
C19_NoAdjacentFree ==
    status = "ok" =>
        \A i \in 1 .. Len(Chain) :
            ~(IsFree(Chain[i]) /\ HdrOK(NextOf(Chain[i]))
                /\ NextOf(Chain[i]) # Chain[i]
                /\ IsFree(NextOf(Chain[i])))

\* the span allocate(size) computes: align(sizeof(block) + size)
SpanOf(size) == align((PTR + size) % Word)

\* the Free blocks of the chain whose capacity is at least span
Fits(span) == {b \in ChainBlocks : IsFree(b) /\ Capacity(b) >= span}

SizeIn(m, b) == m[b]
FreeIn(m, b) == (m[b + 8] % 256) # 0
NextIn(m, b) == m[b + 16]

\* this step is an allocate(size > 0) that returned the payload of a block
\* that was a Free block of the chain, large enough for the span
ReusesFree ==
    /\ Step("malloc") /\ last'.a1 > 0 /\ last'.ret # 0
    /\ (last'.ret - HDR) \in Fits(SpanOf(last'.a1))

\* C21: when allocate reuses a Free block b of capacity c for span s: if
\* c > s + header size, b ends Used with capacity s, followed directly by a
\* new Free block of capacity c - s - header size > 0 whose successor is b's
\* former successor; otherwise b ends Used with capacity c and the chain has
\* the blocks it had.
C21_SplitOnReuse ==
    [][ReusesFree =>
         LET b == last'.ret - HDR
             s == SpanOf(last'.a1)
             c == Capacity(b)
             n == b + HDR + s
         IN IF c > s + HDR
            THEN /\ ~FreeIn(mem', b) /\ SizeIn(mem', b) = s
                 /\ NextIn(mem', b) = n
                 /\ HdrOK(n) /\ FreeIn(mem', n)
                 /\ SizeIn(mem', n) = c - s - HDR /\ SizeIn(mem', n) > 0
                 /\ NextIn(mem', n) = NextOf(b)
            ELSE /\ ~FreeIn(mem', b) /\ SizeIn(mem', b) = c
                 /\ Chain' = Chain]_vars

\* allocate has just split a Free block that had a successor: the remainder
\* is Free and stands between the block and that successor
C21_Witness ==
    /\ Returned("malloc") /\ last.ret # 0
    /\ Capacity(last.ret - HDR) = SpanOf(last.a1)
    /\ NextOf(last.ret - HDR) = last.ret + SpanOf(last.a1)
    /\ HdrOK(NextOf(last.ret - HDR))
    /\ IsFree(NextOf(last.ret - HDR))
    /\ NextOf(NextOf(last.ret - HDR)) > NextOf(last.ret - HDR)
    /\ brk >= NextOf(NextOf(last.ret - HDR))

\* C22: an allocate(size) that grows the arena advances the arena end by
\* span = align(header size + size) and creates, at the prior arena end, a
\* Used block of capacity span - header size with no successor, the new tail
\* of the chain (the head when the arena was uninitialized).
C22_GrowthBlock ==
    [][(Step("malloc") /\ last'.a1 > 0 /\ last'.ret # 0 /\ brk' # brk) =>
         LET span == align((HDR + last'.a1) % Word)
         IN /\ brk' = brk + span
            /\ last'.ret = brk + HDR
            /\ SizeIn(mem', brk) = span - HDR
            /\ ~FreeIn(mem', brk)
            /\ NextIn(mem', brk) = 0
            /\ Len(Chain') >= 1 /\ Chain'[Len(Chain')] = brk
            /\ heap_start = 0 => heap_start' = brk]_vars

\* C23: a reallocate(p, size), p non-null, that returns a non-null q gives a span
\* [q, q + size) inside the arena that shares no byte with the header of
\* another block of the chain nor with the requested span of another live
\* allocation.
C23_ReallocSpanSafe ==
    (Returned("realloc") /\ last.a1 # NullPtr /\ last.a2 > 0 /\ last.ret # 0) =>
        /\ last.ret >= HeapBase
        /\ last.ret + last.a2 <= brk
        /\ \A b \in ChainBlocks \ {last.ret - HDR} :
              ~Overlap(last.ret, last.a2, b, HDR)
        /\ \A a \in live \ {Given(last.ret, last.a2)} :
              ~Overlap(last.ret, last.a2, a.ptr, a.size)

\* C24: every block header address of the chain, every capacity stored in it
\* and every pointer a call returns is a multiple of the word size.
C24_WordAligned ==
    status = "ok" =>
        /\ heap_start % WORD = 0
        /\ last.ret % WORD = 0
        /\ \A b \in ChainBlocks :
              Capacity(b) % WORD = 0 /\ NextOf(b) % WORD = 0

\* ---- align applied to every value of the size type ----------------------
AlignInit ==
    /\ mem = [a \in Addrs |-> 0]
    /\ brk = HeapBase
    /\ heap_start = 0
    /\ live = {}
    /\ \E n \in 0 .. (Word - 1) : last = Call("none", n, 0, 0)
    /\ prev = Call("none", 0, 0, 0)
    /\ status = "ok"
    /\ calls = 0

AlignCall ==
    /\ calls = 0
    /\ last' = Call("align", last.a1, 0, align(last.a1))
    /\ calls' = 1
    /\ UNCHANGED <<mem, brk, heap_start, live, prev, status>>

AlignNext == AlignCall

Aligns == AlignInit /\ [][AlignNext]_vars

\* C25: for every n of the size type, align(n) is the smallest multiple of
\* the word size that is >= n: a multiple of it, >= n, and less than one
\* word above n.
C25_AlignRoundsUp ==
    last.op = "align" =>
        /\ last.ret % WORD = 0
        /\ last.ret >= last.a1
        /\ last.ret - last.a1 < WORD

====
